---- MODULE Spec2Model ----
(***************************************************************************)
(* A model of ITR/backend/main.py: the route service of the Intelligent    *)
(* Traffic Routing backend.  One server process handles requests one at a  *)
(* time (the handlers are coroutines without a suspension point), a route  *)
(* calculation builds a Graph, runs Graph.dijkstra or Graph.astar one loop *)
(* iteration per step, reconstructs the path and aggregates the totals.    *)
(*                                                                         *)
(* Numbers.  The program computes with floats.  Every distance, traffic,   *)
(* weight, cost and total of the model is an integer number of thousandths *)
(* (Fixed(1) is 1.0); the inputs are chosen so that no sum of the model    *)
(* has a remainder of exactly half a hundredth, the only place where the   *)
(* binary representation would decide round().                             *)
(***************************************************************************)
EXTENDS Integers, Sequences, FiniteSets, TLC

\* ------------------------------------------------------------------ bounds

\* The longest edge list of a request.
MaxEdges == 4
\* The number of hash seeds (PYTHONHASHSEED values) a process may start with.
NumSeeds == 2
\* The number of add_route calls explored in the history specification.
MaxAdds == 52

\* The add_route calls made around route computations.
MaxFrameAdds == 2

\* ------------------------------------------------------- program constants

\* float('inf'), the cost of a node not reached yet (main.py:90).
Inf == -1
\* The value an unreached cost is rendered as in a snapshot (main.py:110).
Sentinel == 999999
\* The number of history entries kept (main.py:253).
HistoryCap == 50

\* A decimal number of the program as thousandths.
Fixed(x) == x * 1000

\* ------------------------------------------------------------------ inputs

\* The node labels of the requests, in the order Python compares strings.
NodeUniverse == <<"A", "B", "C", "D">>
NodeSet == {NodeUniverse[i] : i \in 1..Len(NodeUniverse)}

\* Position of a label in Python's string order ("A" < "B" < "C" < "D").
Ord(n) == CHOOSE i \in 1..Len(NodeUniverse) : NodeUniverse[i] = n

Edge(f, t, d, tr) == [from |-> f, to |-> t, distance |-> d, traffic |-> tr]

\* The edges a request's edge list is drawn from, in declaration order: the
\* square A-B, B-C, C-D, A-D of the specification, a diagonal, an edge
\* parallel to C-D written in the other orientation, and an edge with
\* traffic and a distance of 1.004.
EdgeCatalogue ==
    << Edge("A", "B", Fixed(1), 0),
       Edge("B", "C", Fixed(1), 0),
       Edge("C", "D", Fixed(1), 0),
       Edge("A", "D", Fixed(5), 0),
       Edge("A", "C", Fixed(5), 0),
       Edge("D", "C", Fixed(5), 0),
       Edge("B", "D", 1004, Fixed(1)) >>

RECURSIVE SelectEdges(_, _)
\* The catalogue's edges whose index is in idx, in catalogue order, from i on.
SelectEdges(idx, i) ==
    IF i > Len(EdgeCatalogue) THEN <<>>
    ELSE IF i \in idx THEN <<EdgeCatalogue[i]>> \o SelectEdges(idx, i + 1)
    ELSE SelectEdges(idx, i + 1)

EdgeLists ==
    {SelectEdges(idx, 1) :
        idx \in {s \in SUBSET (1..Len(EdgeCatalogue)) : Cardinality(s) <= MaxEdges}}

Point(x, y) == [x |-> x, y |-> y]

\* A node's position on a 30 x 40 rectangle (every distance between two
\* corners is 0, 30, 40 or 50, so sqrt and /10 are exact in floats).
Home(n) ==
    CASE n = "A" -> Point(0, 0)
      [] n = "B" -> Point(30, 40)
      [] n = "C" -> Point(30, 0)
      [] OTHER   -> Point(0, 40)

\* The position maps of the requests: every node placed, each at its corner
\* or at the origin, or every node but one placed at its corner.
PositionMaps ==
    {pm \in [NodeSet -> {Point(0, 0)} \cup {Home(n) : n \in NodeSet}] :
        \A n \in NodeSet : pm[n] \in {Point(0, 0), Home(n)}}
    \cup
    {[n \in NodeSet \ {m} |-> Home(n)] : m \in NodeSet}

HomePositions == [n \in NodeSet |-> Home(n)]

Request(es, s, e, alg, wt, pm) ==
    [nodes |-> NodeUniverse, edges |-> es, start |-> s, end |-> e,
     algorithm |-> alg, weightType |-> wt, nodePositions |-> pm]

WeightTypes == {"distance", "traffic", "combined", "fastest"}

\* Requests for the uniform-cost search (and for an algorithm that does not exist).
DijkstraRequests ==
    {Request(es, s, e, alg, wt, HomePositions) :
        es \in EdgeLists, s \in NodeSet, e \in NodeSet,
        alg \in {"dijkstra"}, wt \in WeightTypes}
    \cup
    {Request(es, "A", e, "bfs", "distance", HomePositions) :
        es \in EdgeLists, e \in NodeSet}

\* Requests for the heuristic-guided search, from A.
AstarRequests ==
    {Request(es, "A", e, "astar", wt, pm) :
        es \in EdgeLists, e \in NodeSet,
        wt \in {"distance", "traffic", "combined"}, pm \in PositionMaps}

Requests == DijkstraRequests \cup AstarRequests

\* ------------------------------------------------------------------- state

VARIABLES
    hashSeed,       \* the process's string-hash seed, fixed when it starts
    route_history,  \* main.py:62, newest first
    calls,          \* the number of add_route calls handled so far
    added,          \* history: the entries added since the last clear, newest first
    last,           \* history: the previous request and the response it got
    pc,             \* where the handler stands: idle, graph, run, loop, reconstruct, totals, done
    request,        \* the RouteRequest being handled
    adj_list,       \* Graph.adj_list
    distances,      \* the search's locals
    previous,
    visited,
    steps,
    pq,
    path,
    response        \* what the handler returned or raised

vars == <<hashSeed, route_history, calls, added, last, pc, request, adj_list, distances,
          previous, visited, steps, pq, path, response>>

\* ------------------------------------------------------------ exceptions

NoExc == [type |-> "none", arg |-> ""]
KeyError(k) == [type |-> "KeyError", arg |-> k]
\* raise HTTPException(status_code=400, detail="Invalid algorithm")
InvalidAlgorithmExc == [type |-> "HTTPException", arg |-> "400: Invalid algorithm"]

\* ------------------------------------------------------------------- Graph

\* Graph._get_weight: any selector other than distance and traffic is combined.
GetWeight(weight_type, edge) ==
    IF weight_type = "distance" THEN edge.distance
    ELSE IF weight_type = "traffic" THEN edge.traffic
    ELSE edge.distance + (edge.traffic * 2)

RECURSIVE AddEdges(_, _, _, _)
\* The loop of Graph._build_adjacency_list from edge i on: adj with each edge
\* appended to both endpoints' lists, or the KeyError of an unknown endpoint.
AddEdges(adj, edges, weight_type, i) ==
    IF i > Len(edges) THEN [exc |-> NoExc, adj |-> adj]
    ELSE LET edge == edges[i]
             weight == GetWeight(weight_type, edge)
         IN  IF edge.from \notin DOMAIN adj THEN [exc |-> KeyError(edge.from), adj |-> adj]
             ELSE LET adj1 == [adj EXCEPT ![edge.from] =
                                  Append(@, [neighbor |-> edge.to, weight |-> weight, edge |-> edge])]
                  IN  IF edge.to \notin DOMAIN adj1 THEN [exc |-> KeyError(edge.to), adj |-> adj]
                      ELSE AddEdges([adj1 EXCEPT ![edge.to] =
                                        Append(@, [neighbor |-> edge.from, weight |-> weight, edge |-> edge])],
                                    edges, weight_type, i + 1)

\* Graph._build_adjacency_list: an empty list per declared node, then the edges.
BuildAdjacencyList(nodes, edges, weight_type) ==
    AddEdges([n \in {nodes[i] : i \in 1..Len(nodes)} |-> <<>>], edges, weight_type, 1)

\* ------------------------------------------------------- shared by searches

\* Python's order on heap entries: tuples compare element by element, numbers
\* by value and node labels as strings.
RECURSIVE TupleLess(_, _, _)
TupleLess(a, b, i) ==
    IF i > Len(a) THEN FALSE
    ELSE IF i = Len(a) THEN Ord(a[i]) < Ord(b[i])
    ELSE IF a[i] # b[i] THEN a[i] < b[i]
    ELSE TupleLess(a, b, i + 1)

\* A queue popped at its front, pq.pop(0), whatever the costs.
HeapFrontIndex(heap) == 1

\* A queue ordered by the first element of its entries alone, the earliest
\* inserted first among equals.
HeapMinIndexFifo(heap) ==
    CHOOSE i \in 1..Len(heap) :
        \A j \in 1..Len(heap) : j = i \/ heap[i][1] < heap[j][1] \/
                                (heap[i][1] = heap[j][1] /\ i < j)

\* The index of the entry heapq.heappop returns: the least entry of the heap.
HeapMinIndex(heap) ==
    CHOOSE i \in 1..Len(heap) :
        \A j \in 1..Len(heap) : j = i \/ TupleLess(heap[i], heap[j], 1) \/
                                (heap[i] = heap[j] /\ i < j)

\* The heap without its entry i.
HeapRemove(heap, i) == SubSeq(heap, 1, i - 1) \o SubSeq(heap, i + 1, Len(heap))

\* The slot a label's hash falls in under a hash seed: the iteration order of
\* a set of strings follows the hashes, which change with the process's seed.
HashSlot(n, seed) == (Ord(n) * seed) % (Len(NodeUniverse) + 1)

RECURSIVE ListOfSet(_, _)
\* list(visited): the set's elements in the order of their hash slots.
ListOfSet(S, seed) ==
    IF S = {} THEN <<>>
    ELSE LET first == CHOOSE n \in S : \A m \in S :
                          \/ HashSlot(n, seed) < HashSlot(m, seed)
                          \/ (HashSlot(n, seed) = HashSlot(m, seed) /\ Ord(n) <= Ord(m))
         IN  <<first>> \o ListOfSet(S \ {first}, seed)

\* The step appended to steps when current is settled.
Snapshot(current, visited1, dist, prev, seed) ==
    [current   |-> current,
     visited   |-> ListOfSet(visited1, seed),
     distances |-> [k \in DOMAIN dist |-> IF dist[k] # Inf THEN dist[k] ELSE Fixed(Sentinel)],
     previous  |-> prev]

\* A relaxation that never improves a cost once it is finite.
LessThanCostFirstOnly(new_dist, old) == old = Inf

\* new_dist < distances[neighbor], where distances[neighbor] may be infinite.
LessThanCost(new_dist, old) == old = Inf \/ new_dist < old

\* dict assignment d[k] = v, which adds the key when it is new.
DictSet(d, k, v) == [x \in DOMAIN d \cup {k} |-> IF x = k THEN v ELSE d[x]]

RECURSIVE WalkBackAppending(_, _, _)
\* A walk back that appends each node to the path, path.append(current),
\* where the code inserts it in front.
WalkBackAppending(prev, current, acc) ==
    IF current \in DOMAIN prev THEN WalkBackAppending(prev, prev[current], acc \o <<current>>)
    ELSE acc \o <<current>>

RECURSIVE WalkBack(_, _, _)
\* while current: path.insert(0, current); current = previous.get(current)
WalkBack(prev, current, acc) ==
    IF current \in DOMAIN prev THEN WalkBack(prev, prev[current], <<current>> \o acc)
    ELSE <<current>> \o acc

\* A reconstruction that walks back from end without asking whether end was reached.
ReconstructPathUnguarded(prev, start, end) == WalkBack(prev, end, <<>>)

\* A reconstruction that forgets the case start = end.
ReconstructPathNoSelf(prev, start, end) ==
    IF end \in DOMAIN prev THEN WalkBack(prev, end, <<>>) ELSE <<>>

\* The path reconstruction that ends dijkstra and astar.
ReconstructPath(prev, start, end) ==
    IF end \in DOMAIN prev \/ start = end THEN WalkBack(prev, end, <<>>) ELSE <<>>

\* The locals of a search as it starts.
InitialLocals(nodes, start, first) ==
    [distances |-> DictSet([n \in {nodes[i] : i \in 1..Len(nodes)} |-> Inf], start, 0),
     previous  |-> <<>>,
     visited   |-> {},
     steps     |-> <<>>,
     pq        |-> <<first>>,
     broke     |-> FALSE,
     exc       |-> NoExc]

\* ---------------------------------------------------------------- dijkstra

RECURSIVE DijkstraRelaxSwapped(_, _, _, _)
\* A relaxation that records the link the wrong way round:
\* previous[current] = neighbor.
DijkstraRelaxSwapped(s, current, nbrs, i) ==
    IF i > Len(nbrs) THEN s
    ELSE LET neighbor == nbrs[i].neighbor
             new_dist == s.distances[current] + nbrs[i].weight
         IN  IF neighbor \in s.visited THEN DijkstraRelaxSwapped(s, current, nbrs, i + 1)
             ELSE IF LessThanCost(new_dist, s.distances[neighbor])
             THEN DijkstraRelaxSwapped([s EXCEPT !.distances = DictSet(@, neighbor, new_dist),
                                                 !.previous = DictSet(@, current, neighbor),
                                                 !.pq = Append(@, <<new_dist, neighbor>>)],
                                       current, nbrs, i + 1)
             ELSE DijkstraRelaxSwapped(s, current, nbrs, i + 1)

RECURSIVE DijkstraRelax(_, _, _, _)
\* The for loop over adj_list[current], from neighbour i on.
DijkstraRelax(s, current, nbrs, i) ==
    IF i > Len(nbrs) THEN s
    ELSE LET neighbor == nbrs[i].neighbor
             new_dist == s.distances[current] + nbrs[i].weight
         IN  IF neighbor \in s.visited THEN DijkstraRelax(s, current, nbrs, i + 1)
             ELSE IF LessThanCost(new_dist, s.distances[neighbor])
             THEN DijkstraRelax([s EXCEPT !.distances = DictSet(@, neighbor, new_dist),
                                          !.previous = DictSet(@, neighbor, current),
                                          !.pq = Append(@, <<new_dist, neighbor>>)],
                                current, nbrs, i + 1)
             ELSE DijkstraRelax(s, current, nbrs, i + 1)

\* An iteration that goes on relaxing after it settled the end: no break.
DijkstraIterNoBreak(s, adj, end, seed) ==
    LET i == HeapMinIndex(s.pq)
        current == s.pq[i][2]
        popped == [s EXCEPT !.pq = HeapRemove(@, i)]
    IN  IF current \in s.visited THEN popped
        ELSE LET visited1 == s.visited \cup {current}
                 settled == [popped EXCEPT
                               !.visited = visited1,
                               !.steps = Append(@, Snapshot(current, visited1, s.distances,
                                                            s.previous, seed))]
             IN  IF current \notin DOMAIN adj
                 THEN [settled EXCEPT !.exc = KeyError(current)]
                 ELSE DijkstraRelax(settled, current, adj[current], 1)

\* An iteration that settles whatever it pops, without asking whether the
\* node was settled before.
DijkstraIterNoSkip(s, adj, end, seed) ==
    LET i == HeapMinIndex(s.pq)
        current == s.pq[i][2]
        popped == [s EXCEPT !.pq = HeapRemove(@, i)]
        visited1 == s.visited \cup {current}
        settled == [popped EXCEPT
                      !.visited = visited1,
                      !.steps = Append(@, Snapshot(current, visited1, s.distances,
                                                   s.previous, seed))]
    IN  IF current = end THEN [settled EXCEPT !.broke = TRUE]
        ELSE IF current \notin DOMAIN adj
        THEN [settled EXCEPT !.exc = KeyError(current)]
        ELSE DijkstraRelax(settled, current, adj[current], 1)

\* One iteration of dijkstra's while loop on the locals s.
DijkstraIter(s, adj, end, seed) ==
    LET i == HeapMinIndex(s.pq)
        current == s.pq[i][2]
        popped == [s EXCEPT !.pq = HeapRemove(@, i)]
    IN  IF current \in s.visited THEN popped
        ELSE LET visited1 == s.visited \cup {current}
                 settled == [popped EXCEPT
                               !.visited = visited1,
                               !.steps = Append(@, Snapshot(current, visited1, s.distances,
                                                            s.previous, seed))]
             IN  IF current = end THEN [settled EXCEPT !.broke = TRUE]
                 ELSE IF current \notin DOMAIN adj
                 THEN [settled EXCEPT !.exc = KeyError(current)]
                 ELSE DijkstraRelax(settled, current, adj[current], 1)

\* ------------------------------------------------------------------- astar

\* math.sqrt on the squared distances of the position pool, all perfect squares.
Sqrt(n) == CHOOSE r \in 0..n : r * r <= n /\ n < (r + 1) * (r + 1)

\* The node whose position heuristic(node_id) fails to find, if any: the
\* node's own position is looked up first, then the end's.
MissingPosition(node_id, end, node_positions) ==
    IF node_id \notin DOMAIN node_positions THEN KeyError(node_id)
    ELSE IF end \notin DOMAIN node_positions THEN KeyError(end)
    ELSE NoExc

\* astar's heuristic: the Euclidean distance to the end's position, over 10
\* (in thousandths: sqrt(...) * 1000 / 10).
Heuristic(node_id, end, node_positions) ==
    LET node_pos == node_positions[node_id]
        end_pos == node_positions[end]
        dx == end_pos.x - node_pos.x
        dy == end_pos.y - node_pos.y
    IN  Fixed(Sqrt(dx * dx + dy * dy)) \div 10

RECURSIVE AstarRelaxNoSkip(_, _, _, _, _, _)
\* A relaxation that does not pass over settled neighbours.
AstarRelaxNoSkip(s, current, nbrs, i, end, node_positions) ==
    IF i > Len(nbrs) THEN s
    ELSE LET neighbor == nbrs[i].neighbor
             new_dist == s.distances[current] + nbrs[i].weight
         IN  IF LessThanCost(new_dist, s.distances[neighbor])
             THEN LET s1 == [s EXCEPT !.distances = DictSet(@, neighbor, new_dist),
                                      !.previous = DictSet(@, neighbor, current)]
                      missing == MissingPosition(neighbor, end, node_positions)
                  IN  IF missing # NoExc THEN [s1 EXCEPT !.exc = missing]
                      ELSE LET f_score == new_dist + Heuristic(neighbor, end, node_positions)
                           IN  AstarRelaxNoSkip([s1 EXCEPT !.pq = Append(@, <<f_score, new_dist, neighbor>>)],
                                                current, nbrs, i + 1, end, node_positions)
             ELSE AstarRelaxNoSkip(s, current, nbrs, i + 1, end, node_positions)

RECURSIVE AstarRelax(_, _, _, _, _, _)
\* The for loop over adj_list[current], from neighbour i on; a missing
\* position raises out of it after the neighbour's cost is updated.
AstarRelax(s, current, nbrs, i, end, node_positions) ==
    IF i > Len(nbrs) THEN s
    ELSE LET neighbor == nbrs[i].neighbor
             new_dist == s.distances[current] + nbrs[i].weight
         IN  IF neighbor \in s.visited THEN AstarRelax(s, current, nbrs, i + 1, end, node_positions)
             ELSE IF LessThanCost(new_dist, s.distances[neighbor])
             THEN LET s1 == [s EXCEPT !.distances = DictSet(@, neighbor, new_dist),
                                      !.previous = DictSet(@, neighbor, current)]
                      missing == MissingPosition(neighbor, end, node_positions)
                  IN  IF missing # NoExc THEN [s1 EXCEPT !.exc = missing]
                      ELSE LET f_score == new_dist + Heuristic(neighbor, end, node_positions)
                           IN  AstarRelax([s1 EXCEPT !.pq = Append(@, <<f_score, new_dist, neighbor>>)],
                                          current, nbrs, i + 1, end, node_positions)
             ELSE AstarRelax(s, current, nbrs, i + 1, end, node_positions)

\* One iteration of astar's while loop on the locals s.
AstarIter(s, adj, end, node_positions, seed) ==
    LET i == HeapMinIndex(s.pq)
        current == s.pq[i][3]
        popped == [s EXCEPT !.pq = HeapRemove(@, i)]
    IN  IF current \in s.visited THEN popped
        ELSE LET visited1 == s.visited \cup {current}
                 settled == [popped EXCEPT
                               !.visited = visited1,
                               !.steps = Append(@, Snapshot(current, visited1, s.distances,
                                                            s.previous, seed))]
             IN  IF current = end THEN [settled EXCEPT !.broke = TRUE]
                 ELSE IF current \notin DOMAIN adj
                 THEN [settled EXCEPT !.exc = KeyError(current)]
                 ELSE AstarRelax(settled, current, adj[current], 1, end, node_positions)

\* --------------------------------------------------------- calculate_route

\* round(x, 2) on thousandths.
Round2(x) ==
    LET r == x % 10
    IN  IF r < 5 THEN x - r
        ELSE IF r > 5 THEN x - r + 10
        ELSE IF ((x - r) \div 10) % 2 = 0 THEN x - r ELSE x - r + 10

\* A match that looks for the edge in the direction of travel only.
FirstMatchOneWay(edges, u, v) ==
    LET hits == {k \in 1..Len(edges) : edges[k].from = u /\ edges[k].to = v}
    IN  IF hits = {} THEN 0 ELSE CHOOSE k \in hits : \A j \in hits : k <= j

\* The first edge of the request that joins u and v in either orientation
\* (0 when none does).
FirstMatch(edges, u, v) ==
    LET hits == {k \in 1..Len(edges) :
                    \/ (edges[k].from = u /\ edges[k].to = v)
                    \/ (edges[k].to = u /\ edges[k].from = v)}
    IN  IF hits = {} THEN 0 ELSE CHOOSE k \in hits : \A j \in hits : k <= j

RECURSIVE SumAlong(_, _, _, _)
\* The loop over range(len(path) - 1) from i on: acc plus the attribute of the
\* first matching edge of each consecutive pair.
SumAlong(edges, p, attr, i) ==
    IF i > Len(p) - 1 THEN 0
    ELSE LET k == FirstMatch(edges, p[i], p[i + 1])
         IN  (IF k = 0 THEN 0 ELSE edges[k][attr]) + SumAlong(edges, p, attr, i + 1)

NoResponse == [status |-> 0, success |-> FALSE, message |-> "", path |-> <<>>,
               steps |-> <<>>, totalDistance |-> 0, totalTraffic |-> 0, detail |-> NoExc]

\* except Exception as e: raise HTTPException(status_code=500, detail=str(e))
InternalError(e) == [NoResponse EXCEPT !.status = 500, !.detail = e]

\* The body returned when the search gave no path.
NoPathResponse ==
    [NoResponse EXCEPT !.status = 200,
                       !.message = "No path found between selected nodes"]

\* The body returned for a path.
SuccessResponse(edges, p, trace) ==
    [NoResponse EXCEPT !.status = 200, !.success = TRUE, !.path = p, !.steps = trace,
                       !.totalDistance = Round2(SumAlong(edges, p, "distance", 1)),
                       !.totalTraffic = Round2(SumAlong(edges, p, "traffic", 1))]

\* ----------------------------------------------------------------- actions

NoRequest == Request(<<>>, "", "", "", "", <<>>)

SetLocals(s) ==
    /\ distances' = s.distances
    /\ previous' = s.previous
    /\ visited' = s.visited
    /\ steps' = s.steps
    /\ pq' = s.pq

Locals ==
    [distances |-> distances, previous |-> previous, visited |-> visited,
     steps |-> steps, pq |-> pq, broke |-> FALSE, exc |-> NoExc]

\* No request was answered yet.
NoLast == [request |-> NoRequest, response |-> NoResponse]

Init ==
    /\ hashSeed \in 1..NumSeeds
    /\ route_history = <<>>
    /\ calls = 0
    /\ added = <<>>
    /\ last = NoLast
    /\ pc = "idle"
    /\ request = NoRequest
    /\ adj_list = <<>>
    /\ distances = <<>>
    /\ previous = <<>>
    /\ visited = {}
    /\ steps = <<>>
    /\ pq = <<>>
    /\ path = <<>>
    /\ response = NoResponse

\* A request arrives at /calculate-route while no handler runs (from a client
\* that keeps no earlier response).
Receive(reqs) ==
    /\ pc = "idle"
    /\ last = NoLast
    /\ \E r \in reqs : request' = r
    /\ pc' = "graph"
    /\ UNCHANGED <<hashSeed, route_history, calls, added, last, adj_list, distances, previous,
                   visited, steps, pq, path, response>>

\* The handler's request, graph and locals are dropped with its frame.
DropFrame ==
    /\ pc' = "idle"
    /\ request' = NoRequest
    /\ adj_list' = <<>>
    /\ distances' = <<>>
    /\ previous' = <<>>
    /\ visited' = {}
    /\ steps' = <<>>
    /\ pq' = <<>>
    /\ path' = <<>>
    /\ response' = NoResponse

\* The response is sent.
Respond ==
    /\ pc = "done"
    /\ DropFrame
    /\ UNCHANGED <<hashSeed, route_history, calls, added, last>>

\* The response is sent to a client that keeps it with the request.
RespondObserved ==
    /\ pc = "done"
    /\ last' = [request |-> request, response |-> response]
    /\ DropFrame
    /\ UNCHANGED <<hashSeed, route_history, calls, added>>

\* The client sends its last request once more.
ReceiveAgain ==
    /\ pc = "idle"
    /\ last # NoLast
    /\ request' = last.request
    /\ pc' = "graph"
    /\ UNCHANGED <<hashSeed, route_history, calls, added, last, adj_list, distances,
                   previous, visited, steps, pq, path, response>>

\* The client drops the response it kept.
Forget ==
    /\ pc = "idle"
    /\ last # NoLast
    /\ last' = NoLast
    /\ UNCHANGED <<hashSeed, route_history, calls, added, pc, request, adj_list,
                   distances, previous, visited, steps, pq, path, response>>

\* The server process is started again (uvicorn.run): a new hash seed, an
\* empty history.
Restart ==
    /\ pc = "idle"
    /\ hashSeed' \in 1..NumSeeds
    /\ route_history' = <<>>
    /\ calls' = 0
    /\ added' = <<>>
    /\ UNCHANGED <<last, pc, request, adj_list, distances, previous, visited,
                   steps, pq, path, response>>

\* The handler fails with exception e, which its except clause turns into a 500.
Raise(e) ==
    /\ response' = InternalError(e)
    /\ pc' = "done"

\* graph = Graph(request.nodes, request.edges, request.weightType)
BuildGraph ==
    /\ pc = "graph"
    /\ LET built == BuildAdjacencyList(request.nodes, request.edges, request.weightType)
       IN  IF built.exc # NoExc
           THEN Raise(built.exc) /\ UNCHANGED adj_list
           ELSE adj_list' = built.adj /\ pc' = "run" /\ UNCHANGED response
    /\ UNCHANGED <<hashSeed, route_history, calls, added, last, request, distances, previous,
                   visited, steps, pq, path>>

\* graph.dijkstra(start, end) up to its while loop.
DijkstraStart ==
    /\ pc = "run"
    /\ request.algorithm = "dijkstra"
    /\ SetLocals(InitialLocals(request.nodes, request.start, <<0, request.start>>))
    /\ pc' = "loop"
    /\ UNCHANGED <<hashSeed, route_history, calls, added, last, request, adj_list, path, response>>

\* graph.astar(start, end, nodePositions) up to its while loop.
AstarStart ==
    /\ pc = "run"
    /\ request.algorithm = "astar"
    /\ LET missing == MissingPosition(request.start, request.end, request.nodePositions)
       IN  IF missing # NoExc
           THEN Raise(missing) /\ UNCHANGED <<distances, previous, visited, steps, pq>>
           ELSE /\ SetLocals(InitialLocals(request.nodes, request.start,
                                 <<Heuristic(request.start, request.end, request.nodePositions),
                                   0, request.start>>))
                /\ pc' = "loop"
                /\ UNCHANGED response
    /\ UNCHANGED <<hashSeed, route_history, calls, added, last, request, adj_list, path>>

\* Neither algorithm: the HTTPException(400) raised in the try block is caught
\* by its except Exception clause.
InvalidAlgorithm ==
    /\ pc = "run"
    /\ request.algorithm \notin {"dijkstra", "astar"}
    /\ Raise(InvalidAlgorithmExc)
    /\ UNCHANGED <<hashSeed, route_history, calls, added, last, request, adj_list, distances,
                   previous, visited, steps, pq, path>>

\* What follows an iteration that left the locals s.
AfterIter(s) ==
    IF s.exc # NoExc THEN Raise(s.exc)
    ELSE /\ pc' = IF s.broke \/ s.pq = <<>> THEN "reconstruct" ELSE "loop"
         /\ UNCHANGED response

\* One iteration of dijkstra's while loop.
DijkstraStep ==
    /\ pc = "loop"
    /\ request.algorithm = "dijkstra"
    /\ LET s == DijkstraIter(Locals, adj_list, request.end, hashSeed)
       IN  SetLocals(s) /\ AfterIter(s)
    /\ UNCHANGED <<hashSeed, route_history, calls, added, last, request, adj_list, path>>

\* One iteration of astar's while loop.
AstarStep ==
    /\ pc = "loop"
    /\ request.algorithm = "astar"
    /\ LET s == AstarIter(Locals, adj_list, request.end, request.nodePositions, hashSeed)
       IN  SetLocals(s) /\ AfterIter(s)
    /\ UNCHANGED <<hashSeed, route_history, calls, added, last, request, adj_list, path>>

\* The search reconstructs its path and returns (path, steps).
SearchReturn ==
    /\ pc = "reconstruct"
    /\ path' = ReconstructPath(previous, request.start, request.end)
    /\ pc' = "totals"
    /\ UNCHANGED <<hashSeed, route_history, calls, added, last, request, adj_list, distances,
                   previous, visited, steps, pq, response>>

\* A no-path branch that records the failed search in the history.
NoPathRecorded ==
    /\ pc = "totals"
    /\ path = <<>>
    /\ response' = NoPathResponse
    /\ pc' = "done"
    /\ route_history' = <<[call |-> 0]>> \o route_history
    /\ UNCHANGED <<hashSeed, calls, added, last, request, adj_list, distances,
                   previous, visited, steps, pq, path>>

\* if not path: the no-path body, with an empty steps list.
NoPath ==
    /\ pc = "totals"
    /\ path = <<>>
    /\ response' = NoPathResponse
    /\ pc' = "done"
    /\ UNCHANGED <<hashSeed, route_history, calls, added, last, request, adj_list, distances,
                   previous, visited, steps, pq, path>>

\* The totals along the path and the success body.
Totals ==
    /\ pc = "totals"
    /\ path # <<>>
    /\ response' = SuccessResponse(request.edges, path, steps)
    /\ pc' = "done"
    /\ UNCHANGED <<hashSeed, route_history, calls, added, last, request, adj_list, distances,
                   previous, visited, steps, pq, path>>

CalculateRoute ==
    \/ BuildGraph
    \/ DijkstraStart
    \/ AstarStart
    \/ InvalidAlgorithm
    \/ DijkstraStep
    \/ AstarStep
    \/ SearchReturn
    \/ NoPath
    \/ Totals

Next ==
    \/ Receive(Requests)
    \/ CalculateRoute
    \/ Respond

Spec == Init /\ [][Next]_vars

\* ----------------------------------------------------------------- history

\* An insert whose cap evicts the newest entry, pop(0), instead of the oldest.
HistoryInsertEvictNewest(history, route_dict) ==
    LET grown == <<route_dict>> \o history
    IN  IF Len(grown) > HistoryCap THEN Tail(grown) ELSE grown

\* route_history.insert(0, route_dict), then pop() when longer than 50.
HistoryInsert(history, route_dict) ==
    LET grown == <<route_dict>> \o history
    IN  IF Len(grown) > HistoryCap THEN SubSeq(grown, 1, Len(grown) - 1) ELSE grown

\* add_route, for the first maxCalls calls; the entry stands for the call's
\* route_dict, told apart by the number of the call.
AddRoute(maxCalls) ==
    /\ pc = "idle"
    /\ calls < maxCalls
    /\ calls' = calls + 1
    /\ route_history' = HistoryInsert(route_history, [call |-> calls + 1])
    /\ added' = <<[call |-> calls + 1]>> \o added
    /\ UNCHANGED <<hashSeed, last, pc, request, adj_list, distances, previous,
                   visited, steps, pq, path, response>>

\* clear_history
ClearHistory ==
    /\ pc = "idle"
    /\ route_history' = <<>>
    /\ added' = <<>>
    /\ UNCHANGED <<hashSeed, calls, last, pc, request, adj_list, distances, previous,
                   visited, steps, pq, path, response>>

NextHistory ==
    \/ AddRoute(MaxAdds)
    \/ ClearHistory

\* The history endpoints alone.
SpecHistory == Init /\ [][NextHistory]_vars

\* ------------------------------------------------------------------ reruns

\* The requests a client repeats: those from A under the distance policy.
RerunRequests == {r \in Requests : r.start = "A" /\ r.weightType = "distance"}

NextRerun ==
    \/ Receive(RerunRequests)
    \/ CalculateRoute
    \/ RespondObserved
    \/ ReceiveAgain
    \/ Forget
    \/ Restart

\* A client that repeats requests, across restarts of the server.
SpecRerun == Init /\ [][NextRerun]_vars

\* -------------------------------------------------------------- multigraphs

\* Edges for requests whose graph has loops and parallel edges, in declaration
\* order: a self-loop of weight zero on A, two edges between A and B of which
\* the dearer is declared first, an edge of weight zero, a self-loop on C, and
\* two edges between C and D of which the first is the dearer in traffic and
\* the cheaper in distance.
MultiCatalogue ==
    << Edge("A", "A", 0, 0),
       Edge("A", "B", Fixed(5), 0),
       Edge("B", "A", Fixed(1), 0),
       Edge("B", "C", 0, 0),
       Edge("C", "C", Fixed(1), Fixed(1)),
       Edge("C", "D", Fixed(1), Fixed(2)),
       Edge("D", "C", Fixed(2), 0) >>

RECURSIVE SelectMulti(_, _)
\* The multigraph catalogue's edges whose index is in idx, in catalogue order,
\* from i on.
SelectMulti(idx, i) ==
    IF i > Len(MultiCatalogue) THEN <<>>
    ELSE IF i \in idx THEN <<MultiCatalogue[i]>> \o SelectMulti(idx, i + 1)
    ELSE SelectMulti(idx, i + 1)

MultiEdgeLists ==
    {SelectMulti(idx, 1) :
        idx \in {s \in SUBSET (1..Len(MultiCatalogue)) : Cardinality(s) <= MaxEdges}}

\* Requests on multigraphs, from A: both searches under the three policies,
\* and an algorithm that does not exist.
MultiRequests ==
    {Request(es, "A", e, alg, wt, HomePositions) :
        es \in MultiEdgeLists, e \in NodeSet,
        alg \in {"dijkstra", "astar"}, wt \in {"distance", "traffic", "combined"}}
    \cup
    {Request(es, "A", e, "bfs", "distance", HomePositions) :
        es \in MultiEdgeLists, e \in NodeSet}

NextMulti ==
    \/ Receive(MultiRequests)
    \/ CalculateRoute
    \/ Respond

\* Route computations on graphs with loops and parallel edges.
SpecMulti == Init /\ [][NextMulti]_vars

\* ------------------------------------------------- the graph of a request

NodesOf(req) == {req.nodes[i] : i \in 1..Len(req.nodes)}

\* The weights, under the request's policy, of the edges that join u and v.
WeightsBetween(req, u, v) ==
    {GetWeight(req.weightType, req.edges[k]) :
        k \in {j \in 1..Len(req.edges) :
                  {req.edges[j].from, req.edges[j].to} = {u, v}}}

Min(S) == CHOOSE x \in S : \A y \in S : x <= y

\* p is a sequence of distinct nodes, each joined to the next by an edge.
IsSimplePath(req, p) ==
    /\ \A i, j \in 1..Len(p) : i # j => p[i] # p[j]
    /\ \A i \in 1..(Len(p) - 1) : WeightsBetween(req, p[i], p[i + 1]) # {}

\* Every simple path of the request's graph from s to e.
SimplePaths(req, s, e) ==
    {p \in UNION {[1..k -> NodesOf(req)] : k \in 1..Len(req.nodes)} :
        p[1] = s /\ p[Len(p)] = e /\ IsSimplePath(req, p)}

RECURSIVE WeightedCostFrom(_, _, _)
WeightedCostFrom(req, p, i) ==
    IF i >= Len(p) THEN 0
    ELSE Min(WeightsBetween(req, p[i], p[i + 1])) + WeightedCostFrom(req, p, i + 1)

\* The weighted cost of path p: the cheapest edge between each consecutive pair.
WeightedCost(req, p) == WeightedCostFrom(req, p, 1)

\* The nodes that can be reached from the request's start.
Reachable(req) == {n \in NodesOf(req) : SimplePaths(req, req.start, n) # {}}

\* The request asks for a search the service offers and gives it what the
\* search needs: a known algorithm and, for astar, a position for every node.
WellFormed(req) ==
    \/ req.algorithm = "dijkstra"
    \/ (req.algorithm = "astar" /\ NodesOf(req) \subseteq DOMAIN req.nodePositions)

\* ---------------------------------------------------------------------- C1

SquareRequest ==
    Request(SubSeq(EdgeCatalogue, 1, 4), "A", "D", "dijkstra", "distance", HomePositions)

\* C1: when the end can be reached, dijkstra's path is a path of the graph
\* from start to end whose weighted cost no path from start to end
\* undercuts (compared with every simple path); on the square
\* A-B(1), B-C(1), C-D(1), A-D(5) under the distance policy the path from A
\* to D is A, B, C, D with totals 3.0 and 0.0.
C1_DijkstraOptimal ==
    (pc = "done" /\ request.algorithm = "dijkstra"
        /\ SimplePaths(request, request.start, request.end) # {})
    => /\ response.success
       /\ response.path \in SimplePaths(request, request.start, request.end)
       /\ \A p \in SimplePaths(request, request.start, request.end) :
              WeightedCost(request, response.path) <= WeightedCost(request, p)
       /\ request = SquareRequest =>
              /\ response.path = <<"A", "B", "C", "D">>
              /\ response.totalDistance = Fixed(3)
              /\ response.totalTraffic = 0

C1_Witness ==
    /\ pc = "done"
    /\ request = SquareRequest
    /\ response.path = <<"A", "B", "C", "D">>
    /\ Cardinality(SimplePaths(request, "A", "D")) = 2

\* ---------------------------------------------------------------------- C2

RECURSIVE DijkstraLoop(_, _, _, _)
\* dijkstra's while loop run to its end on the locals s.
DijkstraLoop(s, adj, end, seed) ==
    IF s.pq = <<>> \/ s.broke \/ s.exc # NoExc THEN s
    ELSE DijkstraLoop(DijkstraIter(s, adj, end, seed), adj, end, seed)

\* The path Graph.dijkstra returns for the graph adj.
DijkstraPath(nodes, adj, start, end, seed) ==
    ReconstructPath(
        DijkstraLoop(InitialLocals(nodes, start, <<0, start>>), adj, end, seed).previous,
        start, end)

\* The heuristic never overestimates: for every node from which the end can
\* be reached, it is at most the cheapest weighted cost from there to the end.
Admissible(req) ==
    /\ NodesOf(req) \subseteq DOMAIN req.nodePositions
    /\ \A n \in NodesOf(req) :
          LET ps == SimplePaths(req, n, req.end)
          IN  ps # {} =>
                 \A p \in ps : Heuristic(n, req.end, req.nodePositions) <= WeightedCost(req, p)

\* C2: with nonnegative weights and an admissible heuristic, the path astar
\* returns has the weighted cost of the path dijkstra returns for the same
\* graph, start and end.
C2_AstarCostEqualsDijkstra ==
    (pc = "done" /\ request.algorithm = "astar" /\ Admissible(request))
    => LET dpath == DijkstraPath(request.nodes, adj_list, request.start, request.end, hashSeed)
       IN  /\ response.status = 200
           /\ response.success = (dpath # <<>>)
           /\ WeightedCost(request, response.path) = WeightedCost(request, dpath)

\* ---------------------------------------------------------------------- C3

\* The request is well formed and its end, which is not its start, cannot be
\* reached from its start.
EndUnreachable ==
    /\ WellFormed(request)
    /\ request.end # request.start
    /\ request.end \notin Reachable(request)

\* C3 as stated: when the end cannot be reached, the result has success=false,
\* an empty path and a trace with one snapshot for every node reachable from
\* start.
C3_NoPathTraceInResult ==
    (pc = "done" /\ EndUnreachable)
    => /\ response.status = 200
       /\ ~response.success
       /\ response.path = <<>>
       /\ {response.steps[i].current : i \in 1..Len(response.steps)} = Reachable(request)
       /\ Len(response.steps) = Cardinality(Reachable(request))

\* C3 as amended: when the end cannot be reached, the result has
\* success=false, an empty path, zero totals and an empty trace; the trace the
\* search returned, which holds exactly one snapshot for every node reachable
\* from start, is not in the result.
C3_NoPathResult ==
    (pc = "done" /\ EndUnreachable)
    => /\ response = NoPathResponse
       /\ response.status = 200
       /\ ~response.success
       /\ response.path = <<>>
       /\ response.steps = <<>>
       /\ response.totalDistance = 0 /\ response.totalTraffic = 0
       /\ {steps[i].current : i \in 1..Len(steps)} = Reachable(request)
       /\ Len(steps) = Cardinality(Reachable(request))

C3_Witness ==
    /\ pc = "done"
    /\ EndUnreachable
    /\ Cardinality(Reachable(request)) = 3
    /\ Len(steps) = 3
    /\ response.steps = <<>>
    /\ ~response.success

\* ---------------------------------------------------------------------- C4

\* C4: a request with start = end (a known algorithm and, for astar, a
\* position for the start) gets path = [start], a trace of exactly one
\* snapshot whose current is start, and zero totals, whatever its edges.
C4_StartIsEnd ==
    (/\ pc = "done"
     /\ request.start = request.end
     /\ \/ request.algorithm = "dijkstra"
        \/ (request.algorithm = "astar" /\ request.start \in DOMAIN request.nodePositions))
    => /\ response.status = 200
       /\ response.success
       /\ response.path = <<request.start>>
       /\ Len(response.steps) = 1
       /\ response.steps[1].current = request.start
       /\ response.totalDistance = 0
       /\ response.totalTraffic = 0

C4_Witness ==
    /\ pc = "done"
    /\ request.start = request.end
    /\ request.algorithm = "astar"
    /\ Len(adj_list[request.start]) >= 2
    /\ response.path = <<request.start>>
    /\ Len(response.steps) = 1

\* ---------------------------------------------------------------------- C5

ValidWeightTypes == {"distance", "traffic", "combined"}

\* A validation error: the request is rejected with a client-error status.
IsRejected(resp) == resp.status >= 400 /\ resp.status < 500

\* C5: a request whose weightType is none of distance, traffic, combined is
\* rejected before the graph is constructed: no adjacency structure is built
\* for it, no search runs, and its answer is a rejection.
C5_UnknownPolicyRejected ==
    (request # NoRequest /\ request.weightType \notin ValidWeightTypes)
    => /\ adj_list = <<>>
       /\ pc \in {"graph", "done"}
       /\ steps = <<>>
       /\ pc = "done" => IsRejected(response)

\* ---------------------------------------------------------------------- C6

\* C6: a request whose algorithm is neither dijkstra nor astar is answered
\* with a validation error, not with the generic internal error, and no
\* search is performed for it.
C6_UnknownAlgorithmRejected ==
    (request # NoRequest /\ request.algorithm \notin {"dijkstra", "astar"})
    => /\ pc \in {"graph", "run", "done"}
       /\ steps = <<>> /\ visited = {} /\ pq = <<>>
       /\ pc = "done" => (IsRejected(response) /\ response.status # 500)

\* ---------------------------------------------------------------------- C7

\* C7: an astar request in which some declared node has no position is
\* rejected as a validation error before any node is settled: no snapshot is
\* recorded, nothing is relaxed, and the answer is neither a route nor "no
\* path found".
C7_MissingPositionRejected ==
    (/\ request # NoRequest
     /\ request.algorithm = "astar"
     /\ ~(NodesOf(request) \subseteq DOMAIN request.nodePositions))
    => /\ visited = {}
       /\ steps = <<>>
       /\ previous = <<>>
       /\ pc = "done" => IsRejected(response)

\* ---------------------------------------------------------------------- C8

\* The edges of the list that join u and v, in either orientation.
Joining(edges, u, v) ==
    {k \in 1..Len(edges) : {edges[k].from, edges[k].to} = {u, v}}

\* The attribute of the first declared edge joining the i-th pair of p.
PairAttr(edges, p, attr, i) == edges[Min(Joining(edges, p[i], p[i + 1]))][attr]

RECURSIVE SumUpTo(_, _, _, _)
\* The sum of PairAttr over the first n pairs of p.
SumUpTo(edges, p, attr, n) ==
    IF n = 0 THEN 0 ELSE SumUpTo(edges, p, attr, n - 1) + PairAttr(edges, p, attr, n)

\* The unrounded sum of an attribute along path p.
RawTotal(edges, p, attr) == SumUpTo(edges, p, attr, Len(p) - 1)

\* The nearest multiple of a hundredth (10 thousandths) to x, x not half way.
NearestHundredth(x) ==
    CHOOSE y \in (x - 5)..(x + 5) : y % 10 = 0 /\ (y - x) * (y - x) < 25

\* C8 as stated: the totals of a successful result equal the sums, over the
\* consecutive pairs of the path, of the raw distance and traffic of the
\* first declared edge joining the pair in either orientation.
C8_TotalsAreRawSums ==
    (pc = "done" /\ response.success)
    => /\ \A i \in 1..(Len(response.path) - 1) :
              Joining(request.edges, response.path[i], response.path[i + 1]) # {}
       /\ response.totalDistance = RawTotal(request.edges, response.path, "distance")
       /\ response.totalTraffic = RawTotal(request.edges, response.path, "traffic")

\* C8 as amended: every consecutive pair of the path is joined by an edge,
\* and the totals equal those sums rounded to two decimal places; they are
\* determined by the edge list and the path alone, whatever the policy.
C8_TotalsAreRoundedSums ==
    (pc = "done" /\ response.success)
    => /\ \A i \in 1..(Len(response.path) - 1) :
              Joining(request.edges, response.path[i], response.path[i + 1]) # {}
       /\ response.totalDistance =
              NearestHundredth(RawTotal(request.edges, response.path, "distance"))
       /\ response.totalTraffic =
              NearestHundredth(RawTotal(request.edges, response.path, "traffic"))

\* A result whose path runs an edge against its declared direction, crosses a
\* pair joined by two edges, and has a distance that rounding changes.
C8_Witness ==
    /\ pc = "done"
    /\ response.success
    /\ Len(response.path) >= 3
    /\ \E i \in 1..(Len(response.path) - 1) :
          /\ Cardinality(Joining(request.edges, response.path[i], response.path[i + 1])) = 2
          /\ request.edges[Min(Joining(request.edges, response.path[i],
                                       response.path[i + 1]))].from = response.path[i + 1]
    /\ response.totalDistance # RawTotal(request.edges, response.path, "distance")

\* ---------------------------------------------------------------------- C9

\* C9: the same request, answered twice, gets the same answer: the same path,
\* the same trace (the same snapshots in the same order, each with its
\* visited list in the same order) and the same totals.
C9_RerunIdentical ==
    (pc = "done" /\ last.request = request) => response = last.response

\* --------------------------------------------------------------------- C10

\* The first n entries of a sequence (all of it when it is shorter).
Newest(seq, n) == SubSeq(seq, 1, IF Len(seq) < n THEN Len(seq) ELSE n)


\* C10: after any sequence of add_route and clear_history calls the history
\* holds exactly the entries added since the last clear, limited to the 50
\* most recent, newest first; it never holds more than 50, and a clear
\* leaves it empty.
C10_HistoryBounded ==
    /\ Len(route_history) <= HistoryCap
    /\ route_history = Newest(added, HistoryCap)
    /\ added = <<>> => route_history = <<>>

\* At capacity after an eviction: more than 50 entries were added since the
\* last clear, and the oldest one kept is the 50th most recent.
C10_Witness ==
    /\ Len(added) > HistoryCap
    /\ Len(route_history) = HistoryCap
    /\ route_history[1].call = calls
    /\ route_history[HistoryCap].call = calls - HistoryCap + 1

\* --------------------------------------------------------------------- C11

\* The route computations made between history calls: those from A to D
\* under the distance policy.
FrameRequests == {r \in RerunRequests : r.end = "D"}

NextFrame ==
    \/ Receive(FrameRequests)
    \/ CalculateRoute
    \/ Respond
    \/ AddRoute(MaxFrameAdds)
    \/ ClearHistory

\* Route computations between calls of the history endpoints.
SpecFrame == Init /\ [][NextFrame]_vars

RECURSIVE AstarLoop(_, _, _, _, _)
\* astar's while loop run to its end on the locals s.
AstarLoop(s, adj, end, node_positions, seed) ==
    IF s.pq = <<>> \/ s.broke \/ s.exc # NoExc THEN s
    ELSE AstarLoop(AstarIter(s, adj, end, node_positions, seed), adj, end, node_positions, seed)

\* The answer calculate_route builds from the locals s its search ended with.
RouteAnswer(req, s) ==
    IF s.exc # NoExc THEN InternalError(s.exc)
    ELSE LET p == ReconstructPath(s.previous, req.start, req.end)
         IN  IF p = <<>> THEN NoPathResponse ELSE SuccessResponse(req.edges, p, s.steps)

\* calculate_route as a function of the request and the process's hash seed.
RouteResponse(req, seed) ==
    LET built == BuildAdjacencyList(req.nodes, req.edges, req.weightType)
    IN  IF built.exc # NoExc THEN InternalError(built.exc)
        ELSE IF req.algorithm = "dijkstra"
        THEN RouteAnswer(req, DijkstraLoop(InitialLocals(req.nodes, req.start, <<0, req.start>>),
                                           built.adj, req.end, seed))
        ELSE IF req.algorithm = "astar"
        THEN LET missing == MissingPosition(req.start, req.end, req.nodePositions)
             IN  IF missing # NoExc THEN InternalError(missing)
                 ELSE RouteAnswer(req,
                          AstarLoop(InitialLocals(req.nodes, req.start,
                                        <<Heuristic(req.start, req.end, req.nodePositions),
                                          0, req.start>>),
                                    built.adj, req.end, req.nodePositions, seed))
        ELSE InternalError(InvalidAlgorithmExc)

\* C11: calculate_route neither reads nor modifies route_history: from the
\* arrival of a request to its response, whatever the outcome (a route, no
\* path, an error), no step changes the history, and the response is the one
\* the request and the process's hash seed determine, whatever the history
\* holds.
C11_HistoryUntouched ==
    [][/\ (pc # "idle" \/ pc' # "idle") => route_history' = route_history
       /\ pc' = "done" => response' = RouteResponse(request', hashSeed')]_vars

\* A computation that failed while the history held two entries.
C11_Witness ==
    /\ pc = "done"
    /\ response.status = 500
    /\ Len(route_history) = 2
    /\ request.algorithm = "astar"
    /\ steps # <<>>

\* --------------------------------------------------------------------- C12

\* The node of a frontier entry: its last element.
EntryNode(entry) == entry[Len(entry)]

\* The indices whose entry a loop iteration can have popped, given the
\* frontier before and after it: the rest of the frontier, in its order,
\* begins the later frontier.
PoppedIn(before, after) ==
    {i \in 1..Len(before) :
        /\ Len(after) >= Len(before) - 1
        /\ SubSeq(after, 1, Len(before) - 1) = HeapRemove(before, i)}

\* C12: the trace of either algorithm holds one snapshot per first
\* settlement: no node is the current of two snapshots, there are never more
\* snapshots than nodes, an iteration that pops an entry of a settled node
\* records no snapshot and relaxes nothing, and any other iteration records
\* exactly the snapshot of the node it settles.
C12_OneSnapshotPerSettlement ==
    [][/\ \A i, j \in 1..Len(steps') : i # j => steps'[i].current # steps'[j].current
       /\ Len(steps') <= Cardinality(NodesOf(request'))
       /\ (pc = "loop") =>
              \E i \in PoppedIn(pq, pq') :
                  IF EntryNode(pq[i]) \in visited
                  THEN /\ steps' = steps
                       /\ visited' = visited
                       /\ distances' = distances
                       /\ previous' = previous
                       /\ pq' = HeapRemove(pq, i)
                  ELSE /\ Len(steps') = Len(steps) + 1
                       /\ steps'[Len(steps')].current = EntryNode(pq[i])
                       /\ visited' = visited \cup {EntryNode(pq[i])}]_vars

\* A search that popped and discarded an entry of a settled node: the node
\* entered the frontier twice, at a cost and later at a lower one, was
\* settled, and no entry of it is left in the frontier.
C12_Witness ==
    /\ pc \in {"loop", "reconstruct"}
    /\ \E n \in visited :
          /\ \A k \in 1..Len(pq) : EntryNode(pq[k]) # n
          /\ \E i, j \in 1..Len(steps) :
                /\ i < j
                /\ steps[i].distances[n] # Fixed(Sentinel)
                /\ steps[j].distances[n] < steps[i].distances[n]

\* --------------------------------------------------------------------- C13

RECURSIVE UnsettledDegree(_, _, _, _)
\* The number of adjacency entries of the nodes i.. of the node list that are
\* not settled.
UnsettledDegree(nodes, adj, settled, i) ==
    IF i > Len(nodes) THEN 0
    ELSE (IF nodes[i] \in settled THEN 0 ELSE Len(adj[nodes[i]]))
         + UnsettledDegree(nodes, adj, settled, i + 1)

\* What a search has left to do at most: the entries of its frontier, and
\* the entries that settling the unsettled nodes can still add to it.
Variant == Len(pq) + UnsettledDegree(request.nodes, adj_list, visited, 1)

\* The end is the current of the newest snapshot.
EndSettledLast == steps # <<>> /\ steps[Len(steps)].current = request.end

\* C13: every run of dijkstra or astar leaves its loop: each iteration that
\* stays in the loop lowers a natural number, the size of the frontier plus
\* the adjacency entries of the unsettled nodes. For a well-formed request
\* the loop is left exactly after the iteration that settled the end or
\* emptied the frontier; the end's snapshot is the last one of the trace, and
\* once the loop is left nothing is settled or relaxed any more.
C13_SearchTerminates ==
    /\ [][(pc = "loop" /\ pc' = "loop") => (Variant' < Variant /\ Variant' >= 0)]_vars
    /\ [][(pc = "loop" /\ WellFormed(request)) =>
              /\ pc' \in {"loop", "reconstruct"}
              /\ pc' = "reconstruct" <=>
                     \/ (Len(steps') = Len(steps) + 1 /\ EndSettledLast')
                     \/ pq' = <<>>]_vars
    /\ [][(pc \in {"reconstruct", "totals"}) =>
              UNCHANGED <<distances, previous, visited, steps, pq>>]_vars
    /\ [](\A i \in 1..Len(steps) : steps[i].current = request.end => i = Len(steps))
    /\ []((pc = "loop") => request.end \notin visited)

\* A search that stopped on settling its end while entries were left in the
\* frontier.
C13_Witness ==
    /\ pc = "reconstruct"
    /\ pq # <<>>
    /\ Len(steps) >= 3
    /\ EndSettledLast
    /\ request.end \in visited

\* --------------------------------------------------------------------- C14

\* The nodes that have an entry in the frontier.
FrontierNodes(frontier) == {EntryNode(frontier[k]) : k \in 1..Len(frontier)}

\* The predecessor entry of node n in a snapshot: its predecessor, or none.
PredecessorEntry(snapshot, n) ==
    IF n \in DOMAIN snapshot.previous THEN <<snapshot.previous[n]>> ELSE <<>>

\* Across the snapshots of a trace: a node settled in one snapshot is settled
\* in every later one, with the same cost and the same predecessor entry,
\* and no node's cost is higher in a later snapshot than in an earlier one.
SnapshotsStable(trace) ==
    \A i, j \in 1..Len(trace) :
        i < j =>
           /\ \A k \in 1..Len(trace[i].visited) :
                 LET n == trace[i].visited[k]
                 IN  /\ \E m \in 1..Len(trace[j].visited) : trace[j].visited[m] = n
                     /\ trace[j].distances[n] = trace[i].distances[n]
                     /\ PredecessorEntry(trace[j], n) = PredecessorEntry(trace[i], n)
           /\ \A n \in DOMAIN trace[i].distances :
                 trace[j].distances[n] <= trace[i].distances[n]

\* C14: during a search a node goes from unvisited to the frontier to
\* settled and never back: a node without a cost is neither in the frontier
\* nor settled, a node is settled only while it has an entry in the
\* frontier, a settled node stays settled, its cost and predecessor entry
\* are the same in every later snapshot, and the cost of no node rises from
\* one snapshot to a later one.
C14_NodeLifecycle ==
    [][(pc = "loop") =>
          /\ visited \subseteq visited'
          /\ (visited' \ visited) \subseteq FrontierNodes(pq)
          /\ \A n \in DOMAIN distances' :
                 distances'[n] = Inf => n \notin visited' \cup FrontierNodes(pq')
          /\ \A n \in visited : /\ distances'[n] = distances[n]
                                 /\ distances[n] # Inf
                                 /\ (n \in DOMAIN previous') = (n \in DOMAIN previous)
                                 /\ n \in DOMAIN previous => previous'[n] = previous[n]
          /\ \A n \in DOMAIN distances :
                 distances[n] # Inf => (distances'[n] # Inf /\ distances'[n] <= distances[n])
          /\ SnapshotsStable(steps')]_vars

\* A trace of three snapshots or more in which the cost of a node that was
\* in the frontier fell from one snapshot to the next before it was settled.
C14_Witness ==
    /\ pc \in {"loop", "reconstruct"}
    /\ Len(steps) >= 3
    /\ \E i \in 1..(Len(steps) - 1) : \E n \in visited :
          /\ steps[i].distances[n] # Fixed(Sentinel)
          /\ steps[i + 1].distances[n] < steps[i].distances[n]
          /\ steps[Len(steps)].distances[n] = steps[i + 1].distances[n]

\* --------------------------------------------------------------------- C15

\* The currents of the first k snapshots of a trace, in the order of the trace.
SettlementOrder(trace, k) == [i \in 1..k |-> trace[i].current]

\* C15: in the k-th snapshot of a trace the visited list is the sequence of
\* the currents of snapshots 1..k, in settlement order, ending with the
\* snapshot's own current.
C15_VisitedInSettlementOrder ==
    \A k \in 1..Len(steps) :
        /\ steps[k].visited = SettlementOrder(steps, k)
        /\ steps[k].visited[Len(steps[k].visited)] = steps[k].current

\* --------------------------------------------------------------------- C16

\* The search has returned its path to the handler.
SearchReturned == pc = "totals" \/ (pc = "done" /\ response.status = 200)

\* C16: the path a search returns is non-empty exactly when end = start or
\* the end was reached from start (it has a predecessor, which it has
\* exactly when it is another node that edges connect to start); a non-empty
\* path begins with start, ends with end, repeats no node, and each of its
\* consecutive pairs (u, v) has previous[v] = u and is joined by an edge of
\* the request; a result with success carries this very path.
C16_PathShape ==
    SearchReturned =>
       /\ (path # <<>>) <=> (request.end = request.start \/ request.end \in DOMAIN previous)
       /\ (pc = "totals") =>
              ((request.end \in DOMAIN previous) <=>
                  (request.end # request.start /\ request.end \in Reachable(request)))
       /\ path # <<>> =>
              /\ path[1] = request.start
              /\ path[Len(path)] = request.end
              /\ \A i, j \in 1..Len(path) : i # j => path[i] # path[j]
              /\ \A i \in 1..(Len(path) - 1) :
                     /\ path[i + 1] \in DOMAIN previous
                     /\ previous[path[i + 1]] = path[i]
                     /\ Joining(request.edges, path[i], path[i + 1]) # {}
       /\ (pc = "done") => (response.success <=> path # <<>>)
       /\ (pc = "done") => response.path = path

\* An astar search that returned a path of three edges.
C16_Witness ==
    /\ pc = "done"
    /\ request.algorithm = "astar"
    /\ response.success
    /\ Len(path) = 4
    /\ path[1] = request.start
    /\ previous[path[4]] = path[3]

\* --------------------------------------------------------------------- C17

\* The order of the frontier: (cost, node id) for dijkstra's entries and
\* (f, g, node id) for astar's, node ids as strings.
PriorityLeq(a, b) ==
    IF Len(a) = 2
    THEN \/ a[1] < b[1]
         \/ (a[1] = b[1] /\ Ord(a[2]) <= Ord(b[2]))
    ELSE \/ a[1] < b[1]
         \/ (a[1] = b[1] /\ a[2] < b[2])
         \/ (a[1] = b[1] /\ a[2] = b[2] /\ Ord(a[3]) <= Ord(b[3]))

\* C17: the entry an iteration pops is the least entry of the frontier under
\* the order (cost, node id) for dijkstra and (f, g, node id) for astar:
\* among entries of equal priority the one with the smallest node id goes
\* first, wherever it stands in the order of insertion.
C17_PopsMinimum ==
    [][(pc = "loop") =>
          \E i \in PoppedIn(pq, pq') :
              \A j \in 1..Len(pq) : PriorityLeq(pq[i], pq[j])]_vars

\* A tie decided by node id against the order of insertion: the node settled
\* last and a node still in the frontier got the same cost from start in the
\* same iteration, the one in the frontier from the earlier edge, and it has
\* the greater id.
C17_Witness ==
    /\ pc = "loop"
    /\ request.algorithm = "dijkstra"
    /\ Len(steps) >= 3
    /\ LET c == steps[Len(steps)].current
       IN  \E e \in 1..Len(pq) :
              LET d == pq[e][2]
              IN  /\ d \notin visited
                  /\ pq[e][1] = distances[c]
                  /\ Ord(d) > Ord(c)
                  /\ c \in DOMAIN previous /\ previous[c] = request.start
                  /\ previous[d] = request.start
                  /\ Cardinality(Joining(request.edges, request.start, c)) = 1
                  /\ Cardinality(Joining(request.edges, request.start, d)) = 1
                  /\ Min(Joining(request.edges, request.start, d))
                        < Min(Joining(request.edges, request.start, c))

\* --------------------------------------------------------------------- C18

\* Every distance and traffic of the request is a whole number.
IntegerValued(req) ==
    \A k \in 1..Len(req.edges) :
        req.edges[k].distance % Fixed(1) = 0 /\ req.edges[k].traffic % Fixed(1) = 0

\* C18: the totals of a successful result agree with the cost the search
\* computed for the end: under the distance policy totalDistance is the
\* end's final cost, under the traffic policy totalTraffic is, and under the
\* combined policy totalDistance + 2 * totalTraffic is (for whole-number
\* attributes), also when several edges join the same pair of nodes.
C18_TotalsMatchSearchCost ==
    (pc = "done" /\ response.success /\ IntegerValued(request)
        /\ request.weightType \in ValidWeightTypes)
    => LET cost == distances[request.end]
       IN  /\ request.weightType = "distance" => response.totalDistance = cost
           /\ request.weightType = "traffic" => response.totalTraffic = cost
           /\ request.weightType = "combined" =>
                  response.totalDistance + (2 * response.totalTraffic) = cost

\* --------------------------------------------------------------------- C19

\* The costs at which the nodes of a trace were settled do not fall along it.
SettledCostsAscend(trace) ==
    \A k \in 1..(Len(trace) - 1) :
        trace[k].distances[trace[k].current] <= trace[k + 1].distances[trace[k + 1].current]

\* C19: in a dijkstra run (weights are not negative) the entry that settles
\* a node, its first pop that is not discarded, carries the node's best cost
\* at that time and never an outdated one, and the costs of the settled
\* nodes do not decrease along the trace.
C19_SettlesAtBestCost ==
    [][(pc = "loop" /\ request.algorithm = "dijkstra") =>
          /\ \E i \in PoppedIn(pq, pq') :
                 EntryNode(pq[i]) \notin visited => pq[i][1] = distances[EntryNode(pq[i])]
          /\ SettledCostsAscend(steps')]_vars

\* A dijkstra run that settled a node at its best cost while an outdated,
\* dearer entry of the same node was in the frontier.
C19_Witness ==
    /\ pc \in {"loop", "reconstruct"}
    /\ request.algorithm = "dijkstra"
    /\ Len(steps) >= 3
    /\ \E k \in 1..Len(pq) :
          /\ pq[k][2] \in visited
          /\ pq[k][1] > distances[pq[k][2]]
          /\ steps[Len(steps)].current = pq[k][2]

\* --------------------------------------------------------------------- C20

RECURSIVE PredecessorChain(_, _, _)
\* The nodes met by following predecessor links from n, n first, for at most
\* fuel links.
PredecessorChain(prev, n, fuel) ==
    IF n \notin DOMAIN prev \/ fuel = 0 THEN <<n>>
    ELSE <<n>> \o PredecessorChain(prev, prev[n], fuel - 1)

\* C20: at every point of a search the predecessor map is a tree rooted at
\* start: start has no predecessor, the predecessor of every reached node is
\* a settled node, and the predecessor links from any reached node lead to
\* start without meeting a node twice, also on graphs with edges of weight
\* zero and self-loops; so the path the reconstruction walks back is no
\* longer than the node list.
C20_PredecessorTree ==
    /\ request.start \notin DOMAIN previous
    /\ \A n \in DOMAIN previous :
          LET chain == PredecessorChain(previous, n, Len(request.nodes))
          IN  /\ previous[n] \in visited
              /\ previous[n] # n
              /\ chain[Len(chain)] = request.start
              /\ \A i, j \in 1..Len(chain) : i # j => chain[i] # chain[j]
    /\ Len(path) <= Len(request.nodes)
    /\ \A k \in 1..Len(steps) :
          /\ request.start \notin DOMAIN steps[k].previous
          /\ \A n \in DOMAIN steps[k].previous :
                \E m \in 1..Len(steps[k].visited) :
                    steps[k].visited[m] = steps[k].previous[n]

\* A search on a graph with a self-loop at a settled node, in which a node
\* was reached over an edge of weight zero from a node other than start.
C20_Witness ==
    /\ pc \in {"loop", "reconstruct"}
    /\ \E n \in visited :
          \E k \in 1..Len(adj_list[n]) : adj_list[n][k].neighbor = n
    /\ \E n \in DOMAIN previous :
          /\ previous[n] # request.start
          /\ distances[n] = distances[previous[n]]
          /\ Len(PredecessorChain(previous, n, Len(request.nodes))) = 3

====
